---- MODULE Spec2Model ----
(***************************************************************************)
(* GLShaderValidator: a Sublime Text event listener that hands a shader    *)
(* file to the ANGLE command line tool, parses the tool's output into      *)
(* error regions and shows them.                                           *)
(*                                                                         *)
(* Text is modelled as sequences of one-character strings, so that the     *)
(* regular expressions of the plugin are matched character by character.   *)
(* A Python value that may be None is a sequence of length 0 (None) or 1.  *)
(* A sublime.Region is a record [a, b] with a <= b.                        *)
(***************************************************************************)
EXTENDS Integers, Sequences, FiniteSets, TLC

VARIABLES
    doc,               \* per view: text (buffer), file_name, syntax, toolOut
    vsettings,         \* per view: glsv_configured, glsv_enabled, glsv_spec
    regions,           \* per view: the regions added as 'glshadervalidate_errors'
    status,            \* per view: the status text 'glshadervalidator'
    errors,            \* GLShaderValidatorCommand.errors of the listener
    owner,             \* the view whose run assigned errors last, "none" before
    pluginSettings,    \* GLShaderValidatorCommand.pluginSettings is loaded
    userSettings,      \* the user's GLShaderValidator.sublime-settings
    permissionChecked, \* ANGLECommandLine.permissionChecked
    chmods,            \* os.chmod calls made so far
    constructed,       \* a listener has been constructed
    ev                 \* the event handled last

vars == <<doc, vsettings, regions, status, errors, owner, pluginSettings, userSettings,
          permissionChecked, chmods, constructed, ev>>

\* ------------------------------------------------------------------ bounds

\* Most lines a compiler output holds in the parsing specification.
MaxOut == 2

\* Most os.chmod calls the model follows.
MaxChmods == 2

\* ------------------------------------------------------------ Python values

None == <<>>

Some(x) == <<x>>

Val(o) == o[1]

Region(a, b) == [a |-> a, b |-> b]

\* sublime.Region.contains(region): the argument is a subset of the region.
RegionContains(r, s) == r.a <= s.a /\ s.b <= r.b

\* ------------------------------------------------------------------- text

Uppers == <<"A","B","C","D","E","F","G","H","I","J","K","L","M",
            "N","O","P","Q","R","S","T","U","V","W","X","Y","Z">>

Lowers == <<"a","b","c","d","e","f","g","h","i","j","k","l","m",
            "n","o","p","q","r","s","t","u","v","w","x","y","z">>

Digits == <<"0","1","2","3","4","5","6","7","8","9">>

\* The characters of the model's texts.
Chars ==
    { Uppers[i] : i \in 1..Len(Uppers) } \cup { Lowers[i] : i \in 1..Len(Lowers) }
    \cup { Digits[i] : i \in 1..Len(Digits) }
    \cup { " ", ":", "'", ".", "/", "#", ";", "\n" }

\* re.IGNORECASE: both sides are compared in lower case.
LowerChar ==
    [c \in Chars |->
        IF \E i \in 1..Len(Uppers) : Uppers[i] = c
        THEN Lowers[CHOOSE i \in 1..Len(Uppers) : Uppers[i] = c]
        ELSE c]

LowerSeq(s) == [i \in 1..Len(s) |-> LowerChar[s[i]]]

IsDigit(c) == \E i \in 1..Len(Digits) : Digits[i] = c

DigitVal(c) == (CHOOSE i \in 1..Len(Digits) : Digits[i] = c) - 1

\* int(s) of a string of decimal digits.
RECURSIVE ParseInt(_)
ParseInt(s) ==
    IF Len(s) = 0 THEN 0
    ELSE 10 * ParseInt(SubSeq(s, 1, Len(s) - 1)) + DigitVal(s[Len(s)])

\* p is in s at the 1-based index i.
StartsWithAt(s, p, i) ==
    /\ i >= 1
    /\ i + Len(p) - 1 <= Len(s)
    /\ SubSeq(s, i, i + Len(p) - 1) = p

\* re.search of a literal: p occurs somewhere in s.
RECURSIVE SearchFrom(_, _, _)
SearchFrom(s, p, i) ==
    IF i + Len(p) - 1 > Len(s) THEN FALSE
    ELSE IF StartsWithAt(s, p, i) THEN TRUE
    ELSE SearchFrom(s, p, i + 1)

Search(s, p) == SearchFrom(s, p, 1)

\* re.search of 'p$': p ends s, or ends it before one final newline.
EndsWith(s, p) ==
    \/ StartsWithAt(s, p, Len(s) - Len(p) + 1)
    \/ /\ Len(s) >= 1
       /\ s[Len(s)] = "\n"
       /\ StartsWithAt(s, p, Len(s) - Len(p))

\* The first index at or after i whose character is not a digit.
RECURSIVE SkipDigits(_, _)
SkipDigits(s, i) ==
    IF i <= Len(s) /\ IsDigit(s[i]) THEN SkipDigits(s, i + 1) ELSE i

\* The first index at or after i whose character is c, Len(s) + 1 if none.
RECURSIVE IndexOf(_, _, _)
IndexOf(s, c, i) ==
    IF i > Len(s) THEN Len(s) + 1
    ELSE IF s[i] = c THEN i
    ELSE IndexOf(s, c, i + 1)

\* --------------------------------------------------------- the host editor

\* view.lines(Region(0, view.size())): the region of every line, without its
\* newline; a is the offset where the current line begins.
RECURSIVE SplitLines(_, _, _)
SplitLines(t, a, i) ==
    IF i > Len(t) THEN << Region(a, Len(t)) >>
    ELSE IF t[i] = "\n" THEN << Region(a, i - 1) >> \o SplitLines(t, i, i + 1)
    ELSE SplitLines(t, a, i + 1)

ViewLines(t) == SplitLines(t, 0, 1)

\* view.find(pattern, fromPosition, sublime.LITERAL): the first occurrence that
\* begins at or after the offset, None when there is none.
RECURSIVE ViewFind(_, _, _)
ViewFind(t, pat, from) ==
    IF from + Len(pat) > Len(t) THEN None
    ELSE IF StartsWithAt(t, pat, from + 1) THEN Some(Region(from, from + Len(pat)))
    ELSE ViewFind(t, pat, from + 1)

\* ------------------------------------------------------- ANGLECommandLine

ErrorPrefix == <<"E","R","R","O","R",":"," ","0",":">>

AfterNumber == <<":"," ","'">>

AfterToken == <<"'"," ",":"," ">>

\* errorPattern.match(e): "ERROR: 0:(\d+): '([^\']*)' : (.*)" anchored at the
\* start of the line; None, or the three groups.
errorPattern(e) ==
    LET numStart == Len(ErrorPrefix) + 1
        numEnd   == SkipDigits(e, numStart)
        tokStart == numEnd + Len(AfterNumber)
        tokEnd   == IndexOf(e, "'", tokStart)
        desStart == tokEnd + Len(AfterToken)
        desEnd   == IndexOf(e, "\n", desStart)
    IN  IF ~StartsWithAt(e, ErrorPrefix, 1) THEN None
        ELSE IF numEnd = numStart THEN None
        ELSE IF ~StartsWithAt(e, AfterNumber, numEnd) THEN None
        ELSE IF ~StartsWithAt(e, AfterToken, tokEnd) THEN None
        ELSE Some([line  |-> SubSeq(e, numStart, numEnd - 1),
                   token |-> SubSeq(e, tokStart, tokEnd - 1),
                   desc  |-> SubSeq(e, desStart, desEnd - 1)])

PermissionDenied ==
    <<"p","e","r","m","i","s","s","i","o","n"," ","d","e","n","i","e","d">>

\* re.search("permission denied", e, flags=re.IGNORECASE)
IsPermissionDenied(e) == Search(LowerSeq(e), PermissionDenied)

CommentMarker == <<"#","#","#","#">>

\* re.search("^####", e)
IsComment(e) == StartsWithAt(e, CommentMarker, 1)

\* A Python list index: i from 0, or from the end when negative; None stands for
\* an IndexError.
PyIndex(list, i) ==
    IF 0 <= i /\ i < Len(list) THEN Some(list[i + 1])
    ELSE IF i < 0 /\ -i <= Len(list) THEN Some(list[Len(list) + i + 1])
    ELSE None

GLShaderError(region, message) == [region |-> region, message |-> message]

\* RefineLocation with the token searched from the top of the buffer.
RefineLocationFromTop(t, errorToken, errorLocation) ==
    IF Len(errorToken) > 0
    THEN LET betterLocation == ViewFind(t, errorToken, 0)
         IN  IF betterLocation /= None THEN Val(betterLocation) ELSE errorLocation
    ELSE errorLocation

\* Lines 88-98: if there is a token, try and locate it from the start of the
\* error's line on; keep the line when it is not found.
RefineLocation(t, errorToken, errorLocation) ==
    IF Len(errorToken) > 0
    THEN LET betterLocation == ViewFind(t, errorToken, errorLocation.a)
         IN  IF betterLocation /= None THEN Val(betterLocation) ELSE errorLocation
    ELSE errorLocation

\* The body of the loop over the output's lines (lines 66-103) for the line e,
\* with the errors collected so far: what the loop does next, and the errors.
ProcessLine(t, fileLines, e, errs) ==
    IF IsPermissionDenied(e) THEN [ctl |-> "denied", errors |-> <<>>]
    ELSE IF IsComment(e) THEN [ctl |-> "continue", errors |-> errs]
    ELSE LET errorDetails == errorPattern(e)
         IN  IF errorDetails = None THEN [ctl |-> "continue", errors |-> errs]
             ELSE LET errorLine        == ParseInt(Val(errorDetails).line) - 1
                      errorToken       == Val(errorDetails).token
                      errorDescription == Val(errorDetails).desc
                      errorLocation    == PyIndex(fileLines, errorLine)
                  IN  IF errorLocation = None
                      THEN [ctl |-> "IndexError", errors |-> errs]
                      ELSE [ctl    |-> "continue",
                            errors |-> Append(errs, GLShaderError(
                                RefineLocation(t, errorToken, Val(errorLocation)),
                                errorDescription))]

\* ValidateLoop with the loop left at the first comment line.
RECURSIVE ValidateLoopBreakAtComment(_, _, _, _, _)
ValidateLoopBreakAtComment(t, fileLines, errlines, i, errs) ==
    IF i > Len(errlines) \/ (~IsPermissionDenied(errlines[i]) /\ IsComment(errlines[i]))
    THEN [outcome |-> "done", alert |-> FALSE, errors |-> errs]
    ELSE LET step == ProcessLine(t, fileLines, errlines[i], errs)
         IN  CASE step.ctl = "denied" ->
                    [outcome |-> "done", alert |-> TRUE, errors |-> <<>>]
               [] step.ctl = "IndexError" ->
                    [outcome |-> "IndexError", alert |-> FALSE, errors |-> errs]
               [] OTHER -> ValidateLoopBreakAtComment(t, fileLines, errlines, i + 1,
                                                      step.errors)

\* The loop of validate_contents from the i-th line on.
RECURSIVE ValidateLoop(_, _, _, _, _)
ValidateLoop(t, fileLines, errlines, i, errs) ==
    IF i > Len(errlines)
    THEN [outcome |-> "done", alert |-> FALSE, errors |-> errs]
    ELSE LET step == ProcessLine(t, fileLines, errlines[i], errs)
         IN  CASE step.ctl = "denied" ->
                    [outcome |-> "done", alert |-> TRUE, errors |-> <<>>]
               [] step.ctl = "IndexError" ->
                    [outcome |-> "IndexError", alert |-> FALSE, errors |-> errs]
               [] OTHER -> ValidateLoop(t, fileLines, errlines, i + 1, step.errors)

\* What the shell prints when ./essl_to_glsl is not there, and when it may not
\* be executed: with shell=True the process itself always starts.
ShNotFound == <<"s","h",":"," ","n","o","t"," ","f","o","u","n","d","\n">>

ShPermissionDenied ==
    <<"s","h",":"," ","P","e","r","m","i","s","s","i","o","n"," ",
      "d","e","n","i","e","d","\n">>

\* subprocess.Popen(...).stdout.readlines(): the tool's output for the file when
\* the tool runs, the shell's complaint when it does not.
Popen(tool, toolOut) ==
    CASE tool = "missing" -> << ShNotFound >>
      [] tool = "noexec"  -> << ShPermissionDenied >>
      [] OTHER            -> toolOut

\* SpecCmd with the switch on every command line.
SpecCmdAlways(glsv_spec) == "-s=w"

\* The spec switch of the command line.
SpecCmd(glsv_spec) == IF glsv_spec = Some(1) THEN "" ELSE "-s=w"

\* validate_contents(view) on the lines errlines: how it ends ("done", or the
\* IndexError it raises), whether it raised the permission alert, the errors.
validate_contents(t, errlines) == ValidateLoop(t, ViewLines(t), errlines, 1, <<>>)

\* ------------------------------------------------ GLShaderValidatorCommand

Views == {"A", "B"}

DEFAULT_SETTINGS == [glsv_enabled |-> 1, glsv_spec |-> 0]

\* Lines 151-161: the default, unless the user has overridden it.
Overlay(userValue, default) == IF userValue /= None THEN Val(userValue) ELSE default

\* apply_settings that also configures a view that is configured as disabled.
apply_settings_reenabling(vs, user) ==
    IF vs.glsv_configured = None \/ vs.glsv_enabled = Some(0)
    THEN [glsv_configured |-> Some(TRUE),
          glsv_enabled    |-> Some(Overlay(user.glsv_enabled, DEFAULT_SETTINGS.glsv_enabled)),
          glsv_spec       |-> Some(Overlay(user.glsv_spec, DEFAULT_SETTINGS.glsv_spec))]
    ELSE vs

\* apply_settings that configures the view on every call.
apply_settings_always(vs, user) ==
    [glsv_configured |-> Some(TRUE),
     glsv_enabled    |-> Some(Overlay(user.glsv_enabled, DEFAULT_SETTINGS.glsv_enabled)),
     glsv_spec       |-> Some(Overlay(user.glsv_spec, DEFAULT_SETTINGS.glsv_spec))]

\* apply_settings(view) on the view's settings vs: a view that is not configured
\* is marked configured and gets the user's settings over the defaults.
apply_settings(vs, user) ==
    IF vs.glsv_configured = None
    THEN [glsv_configured |-> Some(TRUE),
          glsv_enabled    |-> Some(Overlay(user.glsv_enabled, DEFAULT_SETTINGS.glsv_enabled)),
          glsv_spec       |-> Some(Overlay(user.glsv_spec, DEFAULT_SETTINGS.glsv_spec))]
    ELSE vs

\* settings_changed with the views of one window only: view "A" alone is reset.
settings_changed_one_window(vss) ==
    [v \in DOMAIN vss |->
        IF v = "A" /\ vss[v].glsv_configured /= None
        THEN [vss[v] EXCEPT !.glsv_configured = None]
        ELSE vss[v]]

\* settings_changed(): every view that is configured loses the mark.
settings_changed(vss) ==
    [v \in DOMAIN vss |->
        IF vss[v].glsv_configured /= None
        THEN [vss[v] EXCEPT !.glsv_configured = None]
        ELSE vss[v]]

Glsl == <<"g","l","s","l">>

Essl == <<"e","s","s","l">>

\* is_glsl_or_essl that takes every view with a syntax for a shader.
is_any_syntax(syntax) == syntax /= None

\* is_glsl_or_essl(view): re.search('GLSL|ESSL', syntax, flags=re.IGNORECASE)
is_glsl_or_essl(syntax) ==
    IF syntax /= None
    THEN Search(LowerSeq(Val(syntax)), Glsl) \/ Search(LowerSeq(Val(syntax)), Essl)
    ELSE FALSE

Frag == <<"f","r","a","g">>

Vert == <<"v","e","r","t">>

\* is_valid_file_ending(view): re.search('(frag|vert)$', view.file_name())
is_valid_file_ending(name) == EndsWith(name, Frag) \/ EndsWith(name, Vert)

SuffixMessage ==
    <<"F","i","l","e"," ","n","a","m","e"," ","m","u","s","t"," ","e","n","d"," ",
      "i","n"," ",".","f","r","a","g"," ","o","r"," ",".","v","e","r","t">>

\* show_errors(view): the regions it adds, the region of every error in order.
show_errors(errs) == [k \in 1..Len(errs) |-> errs[k].region]

\* FirstContaining with the last error whose region contains the selection.
RECURSIVE LastContaining(_, _, _)
LastContaining(errs, k, sel) ==
    IF k > Len(errs) THEN None
    ELSE LET later == LastContaining(errs, k + 1, sel)
         IN  IF later /= None THEN later
             ELSE IF RegionContains(errs[k].region, sel) THEN Some(errs[k].message)
             ELSE None

\* Lines 206-210 for one selection: the message of the first error whose region
\* contains it, None when no region does.
RECURSIVE FirstContaining(_, _, _)
FirstContaining(errs, k, sel) ==
    IF k > Len(errs) THEN None
    ELSE IF RegionContains(errs[k].region, sel) THEN Some(errs[k].message)
    ELSE FirstContaining(errs, k + 1, sel)

\* Lines 205-210: the selections in order, each against the errors in order.
RECURSIVE StatusOfSelections(_, _, _)
StatusOfSelections(errs, sels, j) ==
    IF j > Len(sels) THEN None
    ELSE LET found == FirstContaining(errs, 1, sels[j])
         IN  IF found /= None THEN found ELSE StatusOfSelections(errs, sels, j + 1)

\* The status on_selection_modified leaves for a view with this syntax and these
\* selections: erased, then set from the listener's errors.
SelectionStatus(syntax, errs, sels) ==
    IF is_glsl_or_essl(syntax) /\ errs /= None
    THEN StatusOfSelections(Val(errs), sels, 1)
    ELSE None

NoEvent ==
    [kind |-> "init", view |-> "none", tool |-> "none", invoked |-> FALSE,
     specCmd |-> "none", alert |-> FALSE, outcome |-> "none", sel |-> <<>>]

\* run_validator that adds the errors of a run to those it holds and shows.
run_validator_patching(v, tool) ==
    LET vs     == apply_settings(vsettings[v], userSettings)
        d      == doc[v]
        skip   == [vs |-> vs, status |-> None, regions |-> regions[v], errors |-> errors,
                   invoked |-> FALSE, tool |-> "none", specCmd |-> "none",
                   alert |-> FALSE, outcome |-> "none"]
        ran    == [skip EXCEPT !.invoked = TRUE, !.tool = tool,
                               !.specCmd = SpecCmd(vs.glsv_spec)]
        held   == IF errors = None THEN <<>> ELSE Val(errors)
        Store(result) ==
            IF result.outcome = "IndexError"
            THEN [ran EXCEPT !.outcome = "IndexError"]
            ELSE [ran EXCEPT !.outcome = "done",
                             !.alert = result.alert,
                             !.errors = Some(held \o result.errors),
                             !.regions = regions[v] \o show_errors(result.errors)]
    IN  IF vs.glsv_enabled = Some(0)
        THEN [skip EXCEPT !.regions = <<>>, !.outcome = "disabled"]
        ELSE IF ~is_glsl_or_essl(d.syntax)
        THEN [skip EXCEPT !.outcome = "not shader"]
        ELSE IF ~is_valid_file_ending(d.file_name)
        THEN [skip EXCEPT !.status = Some(SuffixMessage), !.outcome = "bad suffix"]
        ELSE CHOOSE post \in { Store(result) :
                        result \in { validate_contents(d.text, Popen(tool, d.toolOut)) } } :
                    TRUE

\* run_validator(view) with the tool in the given state: the view's settings,
\* status and regions and the listener's errors afterwards, with what the run did.
run_validator(v, tool) ==
    LET vs     == apply_settings(vsettings[v], userSettings)
        d      == doc[v]
        skip   == [vs |-> vs, status |-> None, regions |-> regions[v], errors |-> errors,
                   invoked |-> FALSE, tool |-> "none", specCmd |-> "none",
                   alert |-> FALSE, outcome |-> "none"]
        ran    == [skip EXCEPT !.invoked = TRUE, !.tool = tool,
                               !.specCmd = SpecCmd(vs.glsv_spec)]
        Store(result) ==
            IF result.outcome = "IndexError"
            THEN [ran EXCEPT !.outcome = "IndexError"]
            ELSE [ran EXCEPT !.outcome = "done",
                             !.alert = result.alert,
                             !.errors = Some(result.errors),
                             !.regions = show_errors(result.errors)]
    IN  IF vs.glsv_enabled = Some(0)
        THEN [skip EXCEPT !.regions = <<>>, !.outcome = "disabled"]
        ELSE IF ~is_glsl_or_essl(d.syntax)
        THEN [skip EXCEPT !.outcome = "not shader"]
        ELSE IF ~is_valid_file_ending(d.file_name)
        THEN [skip EXCEPT !.status = Some(SuffixMessage), !.outcome = "bad suffix"]
        ELSE CHOOSE post \in { Store(result) :
                        result \in { validate_contents(d.text, Popen(tool, d.toolOut)) } } :
                    TRUE

\* One of the three triggers, which all run the validator on the view.
Trigger(v, tool) ==
    \E r \in { run_validator(v, tool) } :
        /\ constructed
        /\ vsettings' = [vsettings EXCEPT ![v] = r.vs]
        /\ status' = [status EXCEPT ![v] = r.status]
        /\ regions' = [regions EXCEPT ![v] = r.regions]
        /\ errors' = r.errors
        /\ owner' = IF r.outcome = "done" THEN v ELSE owner
        /\ pluginSettings' = TRUE
        /\ ev' = [kind |-> "run_validator", view |-> v, tool |-> r.tool,
                  invoked |-> r.invoked, specCmd |-> r.specCmd, alert |-> r.alert,
                  outcome |-> r.outcome, sel |-> <<>>]
        /\ UNCHANGED <<doc, userSettings, permissionChecked, chmods, constructed>>

on_load(v, tool) == Trigger(v, tool)

on_activated(v, tool) == Trigger(v, tool)

on_post_save(v, tool) == Trigger(v, tool)

\* on_selection_modified that also erases the view's regions, as clear_errors.
on_selection_modified_clearing(v, sels) ==
    /\ constructed
    /\ status' = [status EXCEPT ![v] = SelectionStatus(doc[v].syntax, errors, sels)]
    /\ regions' = [regions EXCEPT ![v] = <<>>]
    /\ ev' = [NoEvent EXCEPT !.kind = "on_selection_modified", !.view = v, !.sel = sels]
    /\ UNCHANGED <<doc, vsettings, errors, owner, pluginSettings, userSettings,
                   permissionChecked, chmods, constructed>>

on_selection_modified(v, sels) ==
    /\ constructed
    /\ status' = [status EXCEPT ![v] = SelectionStatus(doc[v].syntax, errors, sels)]
    /\ ev' = [NoEvent EXCEPT !.kind = "on_selection_modified", !.view = v, !.sel = sels]
    /\ UNCHANGED <<doc, vsettings, regions, errors, owner, pluginSettings, userSettings,
                   permissionChecked, chmods, constructed>>

\* The user's settings file changes; settings_changed is called once
\* apply_settings has loaded the settings and added it as their on_change.
UserSettingsChange(new) ==
    /\ new /= userSettings
    /\ userSettings' = new
    /\ vsettings' = IF pluginSettings THEN settings_changed(vsettings) ELSE vsettings
    /\ ev' = [NoEvent EXCEPT !.kind = IF pluginSettings THEN "settings_changed"
                                                        ELSE "settings file"]
    /\ UNCHANGED <<doc, regions, status, errors, owner, pluginSettings,
                   permissionChecked, chmods, constructed>>

\* ensure_script_permissions that does not look at permissionChecked.
ensure_script_permissions_unchecked ==
    /\ chmods' = chmods + 1
    /\ permissionChecked' = TRUE

\* ensure_script_permissions(): the tool is made executable unless that was done.
ensure_script_permissions ==
    /\ chmods' = IF ~permissionChecked THEN chmods + 1 ELSE chmods
    /\ permissionChecked' = TRUE

\* GLShaderValidatorCommand(): __init__ calls ensure_script_permissions().
Construct ==
    /\ chmods < MaxChmods
    /\ constructed' = TRUE
    /\ ensure_script_permissions
    /\ ev' = [NoEvent EXCEPT !.kind = "construct"]
    /\ UNCHANGED <<doc, vsettings, regions, status, errors, owner, pluginSettings,
                   userSettings>>

\* ----------------------------------------------------------------- inputs

\* A line of the tool's output in the shape ERROR: 0:N: 'T' : D.
ErrLine(n, token, desc) ==
    ErrorPrefix \o n \o AfterNumber \o token \o AfterToken \o desc \o <<"\n">>

Text0 == <<>>

Text1 == <<"a","b","\n","b","a">>

Text2 == <<"a","\n","\n","f","o","o",";">>

TokA == <<"a">>

TokAB == <<"a","b">>

TokFoo == <<"f","o","o">>

LineA1 == ErrLine(<<"1">>, TokA, <<"x">>)

LineA2 == ErrLine(<<"2">>, TokA, <<"y">>)

LineAB2 == ErrLine(<<"2">>, TokAB, <<"z">>)

LineFoo3 == ErrLine(<<"3">>, TokFoo, <<"n","o">>)

LineFoo02 == ErrLine(<<"0","2">>, TokFoo, <<"l","z">>)

LineEmpty1 == ErrLine(<<"1">>, <<>>, <<"e","'","q">>)

LineZero == ErrLine(<<"0">>, TokA, <<"o">>)

LineNine == ErrLine(<<"9">>, TokA, <<"b","i","g">>)

LineComment == CommentMarker \o <<" ">> \o LineA1

LineCommentDenied == CommentMarker \o <<" ","P","E","R","M","I","S","S","I","O","N",
                                        " ","d","e","n","i","e","d","\n">>

LineWarning == <<"W","A","R","N",":"," ","0",":","1","\n">>

LineNoColon == ErrorPrefix \o <<"1"," ","'","a","'"," ",":"," ","d","\n">>

LineIndented == <<" ">> \o LineA1

ParseLines ==
    {LineA1, LineA2, LineAB2, LineFoo3, LineFoo02, LineEmpty1, LineZero, LineNine,
     LineComment, LineCommentDenied, ShPermissionDenied, LineWarning, LineNoColon,
     LineIndented}

\* The sequences over S of length n, and of length at most n.
RECURSIVE SeqsOfLen(_, _)
SeqsOfLen(S, n) ==
    IF n = 0 THEN { <<>> }
    ELSE { Append(q, x) : q \in SeqsOfLen(S, n - 1), x \in S }

SeqsUpTo(S, n) == UNION { SeqsOfLen(S, k) : k \in 0..n }

ParseTexts == {Text0, Text1, Text2}

ParseOutputs == SeqsUpTo(ParseLines, MaxOut)

NameFrag == <<"a",".","f","r","a","g">>

NameVert == <<"a",".","v","e","r","t">>

NameNoDot == <<"a","f","r","a","g">>

NameTxt == <<"a",".","t","x","t">>

SyntaxGLSL == Some(<<"G","L","S","L">>)

SyntaxEssl == Some(<<"x","/","e","s","s","l",".","x">>)

SyntaxPlain == Some(<<"P","l","a","i","n">>)

Document(text, name, syntax, out) ==
    [text |-> text, file_name |-> name, syntax |-> syntax, toolOut |-> out]

ShaderDocument == Document(Text2, NameVert, SyntaxEssl, <<LineComment, LineFoo3>>)

\* The documents view "A" may hold in the session specification; view "B" holds
\* ShaderDocument.
Profiles ==
    { Document(Text1, NameFrag, SyntaxGLSL, <<LineA2, LineAB2>>),
      ShaderDocument,
      Document(Text1, NameFrag, SyntaxGLSL, <<LineA1, LineNine>>),
      Document(Text1, NameNoDot, SyntaxGLSL, <<LineA1>>),
      Document(Text1, NameTxt, SyntaxGLSL, <<LineA1>>),
      Document(Text1, NameFrag, SyntaxPlain, <<LineA1>>),
      Document(Text1, NameVert, None, <<LineA1>>) }

Tools == {"ok", "missing", "noexec"}

UserSettingsValues ==
    { [glsv_enabled |-> None, glsv_spec |-> None],
      [glsv_enabled |-> Some(0), glsv_spec |-> None],
      [glsv_enabled |-> Some(1), glsv_spec |-> Some(1)] }

Cursor(p) == Region(p, p)

\* The selections of a view: one cursor anywhere in the text, or two cursors.
Selections(t) ==
    { << Cursor(p) >> : p \in 0..Len(t) } \cup { << Cursor(0), Cursor(Len(t)) >> }

Unconfigured == [glsv_configured |-> None, glsv_enabled |-> None, glsv_spec |-> None]

\* The settings of a view the editor restored from an earlier session, in which
\* the plugin configured it while the user had the linter off.
RestoredOff == [glsv_configured |-> Some(TRUE), glsv_enabled |-> Some(0), glsv_spec |-> Some(0)]

\* The same, configured while the user had the linter on with the other spec.
RestoredAlt == [glsv_configured |-> Some(TRUE), glsv_enabled |-> Some(1), glsv_spec |-> Some(1)]

\* ---------------------------------------------------------- specifications

InitListener ==
    /\ regions = [v \in Views |-> <<>>]
    /\ status = [v \in Views |-> None]
    /\ errors = None
    /\ owner = "none"
    /\ pluginSettings = FALSE
    /\ ev = NoEvent

\* The plugin is loaded and no listener is constructed yet.
Init ==
    /\ \E d \in Profiles : doc = [v \in Views |-> IF v = "A" THEN d ELSE ShaderDocument]
    /\ \E vs \in {Unconfigured, RestoredOff, RestoredAlt} :
          vsettings = [v \in Views |-> IF v = "B" THEN vs ELSE Unconfigured]
    /\ userSettings = [glsv_enabled |-> None, glsv_spec |-> None]
    /\ permissionChecked = FALSE
    /\ chmods = 0
    /\ constructed = FALSE
    /\ InitListener

Next ==
    \/ Construct
    \/ \E v \in Views, tool \in Tools : on_load(v, tool)
    \/ \E v \in Views, tool \in Tools : on_activated(v, tool)
    \/ \E v \in Views, tool \in Tools : on_post_save(v, tool)
    \/ \E v \in Views : \E sels \in Selections(doc[v].text) : on_selection_modified(v, sels)
    \/ \E new \in UserSettingsValues : UserSettingsChange(new)

Spec == Init /\ [][Next]_vars

\* The parsing specification: one shader document, "A", with any text and any
\* tool output within the bounds, in a session whose listener is constructed.
InitParse ==
    /\ \E t \in ParseTexts, out \in ParseOutputs :
          doc = [v \in Views |->
                    IF v = "A" THEN Document(t, NameFrag, SyntaxGLSL, out)
                    ELSE Document(Text1, NameTxt, SyntaxPlain, <<>>)]
    /\ vsettings = [v \in Views |-> Unconfigured]
    /\ userSettings = [glsv_enabled |-> None, glsv_spec |-> None]
    /\ permissionChecked = TRUE
    /\ chmods = 1
    /\ constructed = TRUE
    /\ InitListener

NextParse ==
    \/ \E tool \in Tools : on_load("A", tool)
    \/ \E tool \in Tools : on_activated("A", tool)
    \/ \E tool \in Tools : on_post_save("A", tool)

SpecParse == InitParse /\ [][NextParse]_vars

\* ------------------------------------------------------- claims: notions

\* The last event ran the validator on view v.
RanOn(v) == ev.kind = "run_validator" /\ ev.view = v

\* The last event ran the validator on view v and the run invoked the tool.
InvokedOn(v) == RanOn(v) /\ ev.invoked

\* The lines the last invocation read for view v.
OutputOf(v) == Popen(ev.tool, doc[v].toolOut)

\* The errors the listener holds, none when it holds None.
StoredErrors == IF errors = None THEN <<>> ELSE Val(errors)

\* The diagnostics a cursor status lookup in view v reads.
DiagnosticsUsedFor(v) ==
    IF is_glsl_or_essl(doc[v].syntax) THEN StoredErrors ELSE <<>>

\* The answer of the cursor status lookup in view v at position p.
DiagnosticCovering(v, p) == SelectionStatus(doc[v].syntax, errors, << Cursor(p) >>)

Positions(v) == 0..Len(doc[v].text)

Least(S) == CHOOSE x \in S : \A y \in S : x <= y

\* The state matches what validate_contents returns for the lines out of view v:
\* how the run ended, the alert, and the stored errors and shown regions.
StateIsResultOf(v, out) ==
    \A r \in { validate_contents(doc[v].text, out) } :
        /\ ev.outcome = r.outcome
        /\ ev.alert = r.alert
        /\ r.outcome = "done" => /\ errors = Some(r.errors)
                                 /\ regions[v] = show_errors(r.errors)

\* The line is of the form ERROR: 0:N: 'T' : D.
WellFormed(e) == errorPattern(e) /= None

LineNumber(e) == ParseInt(Val(errorPattern(e)).line)

NumLines(v) == Len(ViewLines(doc[v].text))

InRange(v, e) == WellFormed(e) /\ LineNumber(e) >= 1 /\ LineNumber(e) <= NumLines(v)

OutOfRange(v, e) == WellFormed(e) /\ ~InRange(v, e)

\* The span of the first occurrence of the token at or after the start of line
\* n (from 1) of the text, the full span of the line when the token is empty or
\* does not occur there.
ExpectedRegion(t, n, token) ==
    LET line == ViewLines(t)[n]
        occ  == { a \in line.a..(Len(t) - Len(token)) :
                     SubSeq(t, a + 1, a + Len(token)) = token }
    IN  IF token /= <<>> /\ occ /= {}
        THEN Region(Least(occ), Least(occ) + Len(token))
        ELSE line

\* ------------------------------------------------------------------ claims

\* C1: a validation run triggered for one document never changes the diagnostic
\* set that answers the cursor status lookup of another document.
C1_CrossDocumentIsolation ==
    [][ \A v \in Views :
          (ev'.kind = "run_validator" /\ ev'.view = v)
          => \A w \in Views \ {v} : DiagnosticsUsedFor(w)' = DiagnosticsUsedFor(w) ]_vars

\* C2: a well-formed line whose line number is outside the document produces no
\* diagnostic and nothing else: the run completes and stores exactly what the
\* output without such lines gives.
C2_OutOfRangeLineIsSkipped ==
    \A v \in Views :
        (InvokedOn(v) /\ \E i \in 1..Len(OutputOf(v)) : OutOfRange(v, OutputOf(v)[i]))
        => /\ ev.outcome = "done"
           /\ StateIsResultOf(v, SelectSeq(OutputOf(v), LAMBDA e : ~OutOfRange(v, e)))

\* C3: after a trigger handled for a document whose enabled setting is false,
\* the document shows no error region and the cursor status lookup answers none
\* at every position; stated for the sessions in which no other document's run
\* has assigned the stored errors.
C3_DisabledClearsDiagnostics ==
    \A v \in Views :
        (RanOn(v) /\ vsettings[v].glsv_enabled = Some(0) /\ owner \in {v, "none"})
        => /\ regions[v] = <<>>
           /\ \A p \in Positions(v) : DiagnosticCovering(v, p) = None

\* C4: when a line of the output matches "permission denied", the run raises
\* the alert and leaves the stored errors and the shown regions empty.
C4_PermissionDeniedAborts ==
    \A v \in Views :
        (InvokedOn(v) /\ \E i \in 1..Len(OutputOf(v)) : IsPermissionDenied(OutputOf(v)[i]))
        => /\ ev.alert
           /\ errors = Some(<<>>)
           /\ regions[v] = <<>>

\* C5: a run whose tool is missing does not end like a successful run that
\* found no diagnostic: completed, no alert, no status, empty errors and regions.
C5_ExecutionFailureIsDistinct ==
    \A v \in Views :
        (InvokedOn(v) /\ ev.tool = "missing")
        => ~ /\ ev.outcome = "done"
             /\ ~ev.alert
             /\ status[v] = None
             /\ errors = Some(<<>>)
             /\ regions[v] = <<>>

DotFrag == <<".","f","r","a","g">>

DotVert == <<".","v","e","r","t">>

EndsIn(s, p) == StartsWithAt(s, p, Len(s) - Len(p) + 1)

AcceptedSuffix(name) == EndsIn(name, DotFrag) \/ EndsIn(name, DotVert)

\* C6: a trigger on an enabled shader document invokes the tool exactly when
\* the file name ends in .frag or .vert, and otherwise sets the suffix status.
C6_AcceptedSuffixGate ==
    \A v \in Views :
        (RanOn(v) /\ vsettings[v].glsv_enabled /= Some(0) /\ is_glsl_or_essl(doc[v].syntax))
        => /\ ev.invoked <=> AcceptedSuffix(doc[v].file_name)
           /\ ~AcceptedSuffix(doc[v].file_name) => status[v] = Some(SuffixMessage)

BeginsWithMarker(e) == Len(e) >= 4 /\ \A i \in 1..4 : e[i] = "#"

\* C7 as stated: the result of a run is the result for the same output with all
\* the lines that begin with #### removed.
C7_CommentLinesRemovable ==
    \A v \in Views :
        InvokedOn(v)
        => StateIsResultOf(v, SelectSeq(OutputOf(v), LAMBDA e : ~BeginsWithMarker(e)))

\* C7 as amended: the lines that begin with #### produce no diagnostic, and the
\* result of a run is the result for the same output without the lines that
\* begin with #### and do not match "permission denied".
C7_HarmlessCommentLinesRemovable ==
    \A v \in Views :
        InvokedOn(v)
        => /\ StateIsResultOf(v, SelectSeq(OutputOf(v),
                    LAMBDA e : ~BeginsWithMarker(e) \/ IsPermissionDenied(e)))
           /\ ev.outcome = "done"
                => Len(StoredErrors)
                      <= Len(SelectSeq(OutputOf(v), LAMBDA e : ~BeginsWithMarker(e)))

\* A run read a comment line ahead of a line that gave a diagnostic.
C7_Witness ==
    \E v \in Views :
        /\ InvokedOn(v)
        /\ ev.outcome = "done"
        /\ StoredErrors /= <<>>
        /\ \E i \in 1..Len(OutputOf(v)) :
              /\ BeginsWithMarker(OutputOf(v)[i])
              /\ \E j \in (i + 1)..Len(OutputOf(v)) : InRange(v, OutputOf(v)[j])

\* C8: every well-formed line of the output whose line number is in the
\* document gives a diagnostic of the run, with the description as its message
\* and the located region of that line; stated for the outputs with no line
\* that matches "permission denied".
C8_WellFormedLineGivesDiagnostic ==
    \A v \in Views :
        (InvokedOn(v) /\ \A i \in 1..Len(OutputOf(v)) : ~IsPermissionDenied(OutputOf(v)[i]))
        => \A i \in 1..Len(OutputOf(v)) :
              InRange(v, OutputOf(v)[i])
              => /\ ev.outcome = "done"
                 /\ \E k \in 1..Len(StoredErrors) :
                       StoredErrors[k] =
                          GLShaderError(
                             ExpectedRegion(doc[v].text, LineNumber(OutputOf(v)[i]),
                                            Val(errorPattern(OutputOf(v)[i])).token),
                             Val(errorPattern(OutputOf(v)[i])).desc)

\* The well-formed lines of the output read for view v, in order.
MatchedLines(v) == SelectSeq(OutputOf(v), WellFormed)

\* C9: in a completed run one diagnostic is stored per well-formed line, found
\* or not; the region of a diagnostic whose line is in the document is the span
\* of the first occurrence of its token at or after the start of that line,
\* and the full line when the token is empty or does not occur there.
C9_TokenRelocation ==
    \A v \in Views :
        (InvokedOn(v) /\ ev.outcome = "done" /\ ~ev.alert)
        => /\ Len(StoredErrors) = Len(MatchedLines(v))
           /\ \A k \in 1..Len(MatchedLines(v)) :
                 InRange(v, MatchedLines(v)[k])
                 => StoredErrors[k].region =
                       ExpectedRegion(doc[v].text, LineNumber(MatchedLines(v)[k]),
                                      Val(errorPattern(MatchedLines(v)[k])).token)

\* A stored diagnostic is narrowed to an occurrence of its token that is not
\* the first of the document, and another keeps its full line.
C9_Witness ==
    \E v \in Views :
        /\ InvokedOn(v) /\ ev.outcome = "done" /\ ~ev.alert
        /\ \E k, l \in 1..Len(MatchedLines(v)) :
              /\ InRange(v, MatchedLines(v)[k])
              /\ InRange(v, MatchedLines(v)[l])
              /\ LET tok == Val(errorPattern(MatchedLines(v)[k])).token
                 IN  /\ tok /= <<>>
                     /\ ViewFind(doc[v].text, tok, 0) /= None
                     /\ StoredErrors[k].region /= Val(ViewFind(doc[v].text, tok, 0))
                     /\ StoredErrors[k].region.b - StoredErrors[k].region.a = Len(tok)
              /\ StoredErrors[l].region = ViewLines(doc[v].text)[LineNumber(MatchedLines(v)[l])]
              /\ Val(errorPattern(MatchedLines(v)[l])).token /= <<>>

\* The stored errors whose region contains the position p.
Covering(p) ==
    { k \in 1..Len(StoredErrors) :
         StoredErrors[k].region.a <= p /\ p <= StoredErrors[k].region.b }

\* C10: after a selection change in a shader document with a single cursor, the
\* status is the message of the first stored diagnostic whose region contains
\* the cursor, and no status when there is none.
C10_CursorLookup ==
    \A v \in Views :
        ( /\ ev.kind = "on_selection_modified" /\ ev.view = v
          /\ is_glsl_or_essl(doc[v].syntax)
          /\ Len(ev.sel) = 1 /\ ev.sel[1].a = ev.sel[1].b )
        => status[v] = IF Covering(ev.sel[1].a) = {} THEN None
                       ELSE Some(StoredErrors[Least(Covering(ev.sel[1].a))].message)

\* The cursor is in the regions of two stored diagnostics with different
\* messages, and the status shows a message.
C10_Witness ==
    \E v \in Views :
        /\ ev.kind = "on_selection_modified" /\ ev.view = v
        /\ is_glsl_or_essl(doc[v].syntax)
        /\ Len(ev.sel) = 1 /\ ev.sel[1].a = ev.sel[1].b
        /\ status[v] /= None
        /\ \E k, l \in Covering(ev.sel[1].a) : StoredErrors[k].message /= StoredErrors[l].message

\* The settings of a view configured under the user settings: enabled 1 and
\* spec 0 unless the user gives a value.
Materialized(user) ==
    [glsv_configured |-> Some(TRUE),
     glsv_enabled    |-> IF user.glsv_enabled = None THEN Some(1) ELSE user.glsv_enabled,
     glsv_spec       |-> IF user.glsv_spec = None THEN Some(0) ELSE user.glsv_spec]

\* C11: after a settings-changed notification no view is configured, and a
\* trigger on a view that is not configured gives it the current user settings
\* over the defaults and decides by them whether the view is disabled.
C11_SettingsInvalidation ==
    /\ [](ev.kind = "settings_changed"
            => \A v \in Views : vsettings[v].glsv_configured = None)
    /\ [][ \A v \in Views :
             (ev'.kind = "run_validator" /\ ev'.view = v
                 /\ vsettings[v].glsv_configured = None)
             => /\ vsettings'[v] = Materialized(userSettings)
                /\ ev'.outcome = "disabled"
                      <=> Materialized(userSettings).glsv_enabled = Some(0) ]_vars

\* A view that had a completed run is found disabled by a later trigger, under
\* user settings that turn the linter off, while the other view, configured
\* before the notification, is still waiting for its trigger.
C11_Witness ==
    \E v \in Views :
        /\ RanOn(v) /\ ev.outcome = "disabled" /\ owner = v
        /\ userSettings.glsv_enabled = Some(0)
        /\ vsettings[v] = Materialized(userSettings)
        /\ \E w \in Views \ {v} :
              /\ vsettings[w].glsv_configured = None
              /\ vsettings[w].glsv_enabled = Some(1)

\* The spec setting a trigger on view v resolves: the one the view holds when
\* it is configured, the user's over the default when it is not.
ResolvedSpec(v) ==
    IF vsettings[v].glsv_configured /= None
    THEN vsettings[v].glsv_spec
    ELSE Materialized(userSettings).glsv_spec

\* C12: a run that invokes the tool passes -s=w unless the spec setting the
\* view was last configured with is 1, and then passes no switch.
C12_SpecFlagSelection ==
    [][ \A v \in Views :
          (ev'.kind = "run_validator" /\ ev'.view = v /\ ev'.invoked)
          => ev'.specCmd = IF ResolvedSpec(v) = Some(1) THEN "" ELSE "-s=w" ]_vars

\* The tool is invoked without the switch for a view configured with spec 1
\* while the user settings give no spec; the other view is configured with 0.
C12_Witness ==
    \E v \in Views :
        /\ InvokedOn(v) /\ ev.specCmd = ""
        /\ userSettings.glsv_spec = None
        /\ vsettings[v].glsv_spec = Some(1)
        /\ \E w \in Views \ {v} :
              vsettings[w].glsv_configured /= None /\ vsettings[w].glsv_spec = Some(0)

\* C13: after a run that completes, the stored errors and the regions of the
\* view are exactly those of the output the run read, and the same trigger
\* repeated at once leaves the errors, regions, status and settings as they are.
C13_WholesaleReplacement ==
    /\ [](\A v \in Views :
             (InvokedOn(v) /\ ev.outcome = "done") => StateIsResultOf(v, OutputOf(v)))
    /\ [][ \A v \in Views :
             (InvokedOn(v) /\ ev.outcome = "done" /\ ev' = ev)
             => /\ errors' = errors
                /\ regions' = regions
                /\ status' = status
                /\ vsettings' = vsettings ]_vars

\* A completed run stored its diagnostics while the other view still shows the
\* regions of its own earlier run, which are not among those stored now.
C13_Witness ==
    \E v \in Views :
        /\ InvokedOn(v) /\ ev.outcome = "done"
        /\ StoredErrors /= <<>>
        /\ regions[v] = show_errors(StoredErrors)
        /\ \E w \in Views \ {v} :
              /\ regions[w] /= <<>>
              /\ \A k \in 1..Len(regions[w]), l \in 1..Len(regions[v]) :
                    regions[w][k] /= regions[v][l]

\* C14: a trigger on a view that is configured leaves the view's settings as
\* they are, whatever the user settings are at that moment.
C14_ConfiguredOnce ==
    [][ \A v \in Views :
          (ev'.kind = "run_validator" /\ ev'.view = v
              /\ vsettings[v].glsv_configured /= None)
          => vsettings'[v] = vsettings[v] ]_vars

\* A trigger has run on a view and left it configured with settings that
\* differ, in both values, from what the user settings would give now.
C14_Witness ==
    \E v \in Views :
        /\ RanOn(v)
        /\ vsettings[v].glsv_configured /= None
        /\ vsettings[v].glsv_enabled /= Materialized(userSettings).glsv_enabled
        /\ userSettings.glsv_spec /= None
        /\ vsettings[v].glsv_spec /= Materialized(userSettings).glsv_spec

\* C15: a trigger on a view configured as disabled does not invoke the tool;
\* a trigger that invokes the tool on a view whose enabled setting was 0 finds
\* the view not configured, as settings_changed leaves it, and configures it
\* as enabled from the user settings.
C15_DisabledStaysSkipped ==
    [][ \A v \in Views :
          (ev'.kind = "run_validator" /\ ev'.view = v
              /\ vsettings[v].glsv_enabled = Some(0))
          => /\ vsettings[v].glsv_configured /= None
                  => ~ev'.invoked /\ ev'.outcome = "disabled"
             /\ ev'.invoked
                  => /\ vsettings[v].glsv_configured = None
                     /\ Materialized(userSettings).glsv_enabled /= Some(0)
                     /\ vsettings'[v] = Materialized(userSettings) ]_vars

\* A trigger has skipped a shader file with an accepted name because the view
\* is configured as disabled, while the user settings would enable it now.
C15_Witness ==
    \E v \in Views :
        /\ RanOn(v) /\ ev.outcome = "disabled" /\ ~ev.invoked
        /\ vsettings[v].glsv_configured /= None
        /\ Materialized(userSettings).glsv_enabled = Some(1)
        /\ is_glsl_or_essl(doc[v].syntax)
        /\ is_valid_file_ending(doc[v].file_name)

\* The word occurs in s, letters compared without regard to case.
ContainsIgnoringCase(s, word) ==
    \E i \in 1..(Len(s) - Len(word) + 1) :
        \A j \in 1..Len(word) : LowerChar[s[i + j - 1]] = LowerChar[word[j]]

\* The syntax tag is present and contains GLSL or ESSL.
ShaderSyntax(syntax) ==
    /\ syntax /= None
    /\ \/ ContainsIgnoringCase(Val(syntax), <<"G","L","S","L">>)
       \/ ContainsIgnoringCase(Val(syntax), <<"E","S","S","L">>)

\* C16: a trigger on a view whose syntax tag is absent or contains neither
\* GLSL nor ESSL does not invoke the tool, sets no status and fails in no way,
\* whatever the file name.
C16_NonShaderSkippedSilently ==
    \A v \in Views :
        (RanOn(v) /\ ~ShaderSyntax(doc[v].syntax))
        => /\ ~ev.invoked
           /\ status[v] = None
           /\ ~ev.alert
           /\ ev.outcome \in {"disabled", "not shader"}

\* A trigger has skipped an enabled view with a syntax that is no shader's and
\* a file name that ends in .frag.
C16_Witness ==
    \E v \in Views :
        /\ RanOn(v) /\ ev.outcome = "not shader"
        /\ doc[v].syntax /= None /\ ~ShaderSyntax(doc[v].syntax)
        /\ AcceptedSuffix(doc[v].file_name)
        /\ vsettings[v].glsv_enabled = Some(1)

\* The well-formed lines of the output read for view v whose line number is in
\* the document, in order.
InRangeLines(v) == SelectSeq(OutputOf(v), LAMBDA e : InRange(v, e))

\* C17: the run completes and its diagnostics are one per well-formed in-range
\* line of the output, in the order of those lines, equal lines giving separate
\* diagnostics and all other lines giving none; stated for the outputs with no
\* line that matches "permission denied".
C17_OrderAndMultiplicity ==
    \A v \in Views :
        (InvokedOn(v) /\ \A i \in 1..Len(OutputOf(v)) : ~IsPermissionDenied(OutputOf(v)[i]))
        => /\ ev.outcome = "done"
           /\ Len(StoredErrors) = Len(InRangeLines(v))
           /\ \A k \in 1..Len(InRangeLines(v)) :
                 StoredErrors[k] =
                    GLShaderError(
                       ExpectedRegion(doc[v].text, LineNumber(InRangeLines(v)[k]),
                                      Val(errorPattern(InRangeLines(v)[k])).token),
                       Val(errorPattern(InRangeLines(v)[k])).desc)

\* C18: os.chmod is called at most once; a step taken with permissionChecked
\* set makes no call, and a run of the validator makes none.
C18_OneTimePermissionRepair ==
    /\ [](chmods <= 1)
    /\ [][ /\ permissionChecked => chmods' = chmods /\ permissionChecked'
           /\ ev'.kind = "run_validator" => chmods' = chmods ]_vars

\* A listener is constructed after an earlier one has run the validator:
\* permissionChecked is set and os.chmod has been called once.
C18_Witness ==
    /\ ev.kind = "construct"
    /\ pluginSettings
    /\ permissionChecked
    /\ chmods = 1

\* C19: a selection change invokes no tool and leaves the stored errors, the
\* regions and the settings of every view, and the status of every other
\* view, as they are.
C19_SelectionIsReadOnly ==
    [][ ev'.kind = "on_selection_modified"
          => /\ ~ev'.invoked
             /\ errors' = errors
             /\ regions' = regions
             /\ vsettings' = vsettings
             /\ userSettings' = userSettings
             /\ chmods' = chmods
             /\ \A w \in Views \ {ev'.view} : status'[w] = status[w] ]_vars

\* A selection change has set the status of a view that shows regions, while
\* the other view shows the status of its file name.
C19_Witness ==
    \E v \in Views :
        /\ ev.kind = "on_selection_modified" /\ ev.view = v
        /\ status[v] /= None
        /\ regions[v] /= <<>>
        /\ \E w \in Views \ {v} : status[w] = Some(SuffixMessage)

====
